---- MODULE Spec2Model ----
(***************************************************************************)
(* A model of the VFS class of tiledb/sm/filesystem/vfs.cc: the dispatch   *)
(* of every operation on the scheme of its URI and on the backends built   *)
(* in, the open-file preconditions, the moves, and the splitting of one    *)
(* read into chunk tasks run by the thread pool.                           *)
(*                                                                         *)
(* Spec      the facade of an initialized VFS: every public operation as   *)
(*           one action.                                                   *)
(* SpecLife  the same from construction on, with VFS::init.                *)
(* SpecRead  VFS::read step by step: the enqueue loop, the chunk tasks     *)
(*           running in any order on the pool, and wait_all.               *)
(***************************************************************************)
EXTENDS Integers, Sequences, FiniteSets, TLC

(***************************************************************************)
(* Bounds of the model.                                                    *)
(***************************************************************************)
\* largest max_parallel_ops_ (thread pool size) init is given
MaxThreads == 4
\* largest min_parallel_size_ init is given
MaxMinParallelSize == 2
\* largest nbytes of a read
MaxNBytes == 6
\* largest offset of a read
MaxOffset == 1
\* largest number of files and directories the backends hold at a time in the
\* facade specification
MaxObjects == 1

\* uint64_t arithmetic wraps at 2^64; the model wraps at 2^30, far above
\* every offset and length it uses, so that sums stay inside TLC's integers.
UInt64Range == 1073741824

\* length of the file the stepwise read specification reads from
ReadFileLen == MaxNBytes + 1
\* size of the memory around the caller's buffer: the buffer is mem[0..nbytes-1]
MemSize == MaxNBytes + MaxThreads + 2

Min(a, b) == IF a < b THEN a ELSE b
Max(a, b) == IF a > b THEN a ELSE b

(***************************************************************************)
(* URIs and their schemes (URI::is_file, URI::is_hdfs, URI::is_s3).        *)
(***************************************************************************)
LocalLocs == {"file:///a", "file:///b"}
HdfsLocs == {"hdfs://a"}
S3Locs == {"s3://a"}
OtherLocs == {"foo://a"}
StorageLocs == LocalLocs \cup HdfsLocs \cup S3Locs
Locations == StorageLocs \cup OtherLocs

is_file_uri(u) == u \in LocalLocs
is_hdfs_uri(u) == u \in HdfsLocs
is_s3_uri(u) == u \in S3Locs

Scheme(u) ==
  IF is_file_uri(u) THEN "file"
  ELSE IF is_hdfs_uri(u) THEN "hdfs"
  ELSE IF is_s3_uri(u) THEN "s3"
  ELSE "other"

\* the driver a URI of a storage scheme is served by
DriverOf(u) ==
  IF is_file_uri(u) THEN "posix" ELSE IF is_hdfs_uri(u) THEN "hdfs" ELSE "s3"

(***************************************************************************)
(* Status values. msg is the message of the source; uri is the URI the     *)
(* message ends with ("" when the message names none).                     *)
(***************************************************************************)
Ok == [code |-> "Ok", msg |-> "", uri |-> ""]
VFSError(m, u) == [code |-> "VFSError", msg |-> m, uri |-> u]
StatusError(m, u) == [code |-> "Error", msg |-> m, uri |-> u]
\* a failure returned by a backend driver
DriverError == [code |-> "IOError", msg |-> "backend driver failure", uri |-> ""]

NoHdfsError == VFSError("TileDB was built without HDFS support", "")
NoS3Error == VFSError("TileDB was built without S3 support", "")
CrossFsError ==
  VFSError("Moving files across filesystems is not supported yet", "")
ParallelReadError == VFSError("VFS parallel read error", "")
NoAppendError(u) ==
  VFSError("Cannot open file; S3 does not support append mode", u)
NoAppendNoS3Error ==
  VFSError("Cannot open file; TileDB was built without S3 support", "")
S3NotSupportedError == VFSError("S3 is not supported", "")
CreateBucketSchemeError(u) ==
  VFSError("Cannot create bucket; Unsupported URI scheme: ", u)
RemoveBucketSchemeError(u) ==
  VFSError("Cannot remove bucket; Unsupported URI scheme: ", u)
NotFoundError(u) == VFSError("Cannot open file; File does not exist", u)
UnsupportedSchemeError(u) == VFSError("Unsupported URI scheme: ", u)
UnsupportedSchemesError(u) == VFSError("Unsupported URI schemes: ", u)

\* the error kinds of the specification, by message
IsBackendNotCompiled(st) ==
  st \in {NoHdfsError, NoS3Error, NoAppendNoS3Error, S3NotSupportedError}
IsCrossFilesystem(st) == st = CrossFsError
IsUnsupportedScheme(st) ==
  st.msg \in {"Unsupported URI scheme: ", "Unsupported URI schemes: "}
IsNoAppend(st) == st.msg = "Cannot open file; S3 does not support append mode"
IsNotFound(st) == st.msg = "Cannot open file; File does not exist"
IsBackendError(st) == st = DriverError

(***************************************************************************)
(* What a backend holds at a location.                                     *)
(***************************************************************************)
NoEnt == [k |-> "none", data |-> <<>>]
DirEnt == [k |-> "dir", data |-> <<>>]
FileEnt(d) == [k |-> "file", data |-> d]

\* the bytes of a file of n bytes: byte p (from 0) has the value p + 1
Bytes(n) == [p \in 1..n |-> p]

VARIABLES
  supported_fs_,   \* the backends built in: a subset of {"HDFS", "S3"}
  vfs_params_,     \* the stored configuration
  thread_pool_,    \* 0: nullptr; otherwise the number of threads of the pool
  connected,       \* the backends init has connected (hdfs_, s3_)
  lifecycle,       \* the coordinator state of the specification
  fs,              \* the backends' content: StorageLocs -> entity
  last,            \* the last call of the facade and what it did
  rd,              \* the read in progress (stepwise read)
  tasks,           \* the chunk tasks of the read in progress
  mem,             \* the memory the read writes into
  held             \* the lock tokens callers hold (lock scenario)

vars ==
  <<supported_fs_, vfs_params_, thread_pool_, connected, lifecycle, fs, last,
    rd, tasks, mem, held>>

HAVE_HDFS == "HDFS" \in supported_fs_
HAVE_S3 == "S3" \in supported_fs_

\* the backend of u is Local or built in
Available(u) ==
  \/ is_file_uri(u)
  \/ is_hdfs_uri(u) /\ HAVE_HDFS
  \/ is_s3_uri(u) /\ HAVE_S3

\* the scheme of u is recognized but its backend is not built in
NotCompiled(u) ==
  \/ is_hdfs_uri(u) /\ ~HAVE_HDFS
  \/ is_s3_uri(u) /\ ~HAVE_S3


(***************************************************************************)
(* The backend drivers (Posix, hdfs::, S3), by their operation contract.   *)
(* s is the content of the backends, fault says the driver call fails.     *)
(***************************************************************************)
drv_is_dir(s, u) == s[u].k = "dir"
drv_is_file(s, u) == s[u].k = "file"

drv_create_dir(s, u, fault) ==
  IF fault \/ s[u].k # "none"
  THEN [st |-> DriverError, fs |-> s]
  ELSE [st |-> Ok, fs |-> [s EXCEPT ![u] = DirEnt]]

drv_touch(s, u, fault) ==
  IF fault \/ s[u].k = "dir"
  THEN [st |-> DriverError, fs |-> s]
  ELSE [st |-> Ok, fs |-> [s EXCEPT ![u] = FileEnt(<<>>)]]

drv_remove_dir(s, u, fault) ==
  IF fault \/ s[u].k # "dir"
  THEN [st |-> DriverError, fs |-> s]
  ELSE [st |-> Ok, fs |-> [s EXCEPT ![u] = NoEnt]]

drv_remove_file(s, u, fault) ==
  IF fault \/ s[u].k # "file"
  THEN [st |-> DriverError, fs |-> s]
  ELSE [st |-> Ok, fs |-> [s EXCEPT ![u] = NoEnt]]

drv_file_size(s, u, fault) ==
  IF fault \/ s[u].k # "file"
  THEN [st |-> DriverError, size |-> 0]
  ELSE [st |-> Ok, size |-> Len(s[u].data)]

drv_move_path(s, old, new, fault) ==
  IF fault \/ s[old].k = "none"
  THEN [st |-> DriverError, fs |-> s]
  ELSE IF old = new THEN [st |-> Ok, fs |-> s]
  ELSE [st |-> Ok, fs |-> [s EXCEPT ![new] = s[old], ![old] = NoEnt]]

\* write appends the buffer to the file, creating the file when absent
drv_write(s, u, bytes, fault) ==
  IF fault \/ s[u].k = "dir"
  THEN [st |-> DriverError, fs |-> s]
  ELSE [st |-> Ok, fs |-> [s EXCEPT ![u] = FileEnt(s[u].data \o bytes)]]

drv_sync(s, u, fault) == IF fault THEN DriverError ELSE Ok

(***************************************************************************)
(* The result of one facade operation: its status, the driver calls it     *)
(* made, in order, the content of the backends after it, and its outputs.  *)
(***************************************************************************)
Call(u, op) == <<DriverOf(u), op, u>>

R(st, drv, s) ==
  [st |-> st, drv |-> drv, fs |-> s, out |-> FALSE, size |-> 0, pool |-> 0,
   uris |-> <<>>]

\* the #ifdef HAVE_HDFS / HAVE_S3 chain every operation ends with
NotBuilt(u) == IF is_hdfs_uri(u) THEN NoHdfsError ELSE NoS3Error

is_dir(s, u, fault) ==
  IF is_file_uri(u)
  THEN [R(Ok, <<Call(u, "is_dir")>>, s) EXCEPT !.out = drv_is_dir(s, u)]
  ELSE IF is_hdfs_uri(u)
  THEN IF HAVE_HDFS
       THEN [R(Ok, <<Call(u, "is_dir")>>, s) EXCEPT !.out = drv_is_dir(s, u)]
       ELSE R(NoHdfsError, <<>>, s)
  ELSE IF is_s3_uri(u)
  THEN IF HAVE_S3
       THEN IF fault
            THEN R(DriverError, <<Call(u, "is_dir")>>, s)
            ELSE [R(Ok, <<Call(u, "is_dir")>>, s)
                    EXCEPT !.out = drv_is_dir(s, u)]
       ELSE R(NoS3Error, <<>>, s)
  ELSE R(UnsupportedSchemeError(u), <<>>, s)

is_file(s, u) ==
  IF is_file_uri(u)
  THEN [R(Ok, <<Call(u, "is_file")>>, s) EXCEPT !.out = drv_is_file(s, u)]
  ELSE IF is_hdfs_uri(u)
  THEN IF HAVE_HDFS
       THEN [R(Ok, <<Call(u, "is_file")>>, s) EXCEPT !.out = drv_is_file(s, u)]
       ELSE R(NoHdfsError, <<>>, s)
  ELSE IF is_s3_uri(u)
  THEN IF HAVE_S3
       THEN [R(Ok, <<Call(u, "is_object")>>, s)
               EXCEPT !.out = drv_is_file(s, u)]
       ELSE R(NoS3Error, <<>>, s)
  ELSE R(UnsupportedSchemeError(u), <<>>, s)

\* a slip: the directory is created without asking whether it exists
create_dir_unchecked(s, u, fault) ==
  IF is_file_uri(u) \/ (is_hdfs_uri(u) /\ HAVE_HDFS)
  THEN LET d == drv_create_dir(s, u, fault)
       IN  R(d.st, <<Call(u, "create_dir")>>, d.fs)
  ELSE IF is_s3_uri(u) /\ HAVE_S3 THEN R(Ok, <<>>, s)
  ELSE IF NotCompiled(u) THEN R(NotBuilt(u), <<>>, s)
  ELSE R(StatusError("Unsupported URI scheme: ", u), <<>>, s)

\* a slip: creating a directory is a no-op on HDFS as it is on S3
create_dir_hdfs_noop(s, u, fault) ==
  LET chk == is_dir(s, u, FALSE)
      pre == IF is_s3_uri(u) THEN <<>> ELSE chk.drv
  IN  IF ~is_s3_uri(u) /\ chk.st # Ok THEN R(chk.st, pre, s)
      ELSE IF ~is_s3_uri(u) /\ chk.out THEN R(Ok, pre, s)
      ELSE IF is_file_uri(u)
      THEN LET d == drv_create_dir(s, u, fault)
           IN  R(d.st, pre \o <<Call(u, "create_dir")>>, d.fs)
      ELSE IF is_hdfs_uri(u)
      THEN IF HAVE_HDFS THEN R(Ok, pre, s) ELSE R(NoHdfsError, pre, s)
      ELSE IF is_s3_uri(u)
      THEN IF HAVE_S3 THEN R(Ok, pre, s) ELSE R(NoS3Error, pre, s)
      ELSE R(StatusError("Unsupported URI scheme: ", u), pre, s)

create_dir(s, u, fault) ==
  LET chk == is_dir(s, u, FALSE)
      pre == IF is_s3_uri(u) THEN <<>> ELSE chk.drv
  IN  IF ~is_s3_uri(u) /\ chk.st # Ok THEN R(chk.st, pre, s)
      ELSE IF ~is_s3_uri(u) /\ chk.out THEN R(Ok, pre, s)
      ELSE IF is_file_uri(u)
      THEN LET d == drv_create_dir(s, u, fault)
           IN  R(d.st, pre \o <<Call(u, "create_dir")>>, d.fs)
      ELSE IF is_hdfs_uri(u)
      THEN IF HAVE_HDFS
           THEN LET d == drv_create_dir(s, u, fault)
                IN  R(d.st, pre \o <<Call(u, "create_dir")>>, d.fs)
           ELSE R(NoHdfsError, pre, s)
      ELSE IF is_s3_uri(u)
      THEN IF HAVE_S3 THEN R(Ok, pre, s) ELSE R(NoS3Error, pre, s)
      ELSE R(StatusError("Unsupported URI scheme: ", u), pre, s)

\* a slip: the driver is called whether or not its backend is built in
touch_no_ifdef(s, u, fault) ==
  IF u \in StorageLocs
  THEN LET d == drv_touch(s, u, fault)
       IN  R(d.st, <<Call(u, "touch")>>, d.fs)
  ELSE R(UnsupportedSchemeError(u), <<>>, s)

touch(s, u, fault) ==
  IF Available(u)
  THEN LET d == drv_touch(s, u, fault)
       IN  R(d.st, <<Call(u, "touch")>>, d.fs)
  ELSE IF NotCompiled(u) THEN R(NotBuilt(u), <<>>, s)
  ELSE R(UnsupportedSchemeError(u), <<>>, s)

remove_dir(s, u, fault) ==
  IF Available(u)
  THEN LET d == drv_remove_dir(s, u, fault)
       IN  R(d.st, <<Call(u, "remove_dir")>>, d.fs)
  ELSE IF NotCompiled(u) THEN R(NotBuilt(u), <<>>, s)
  ELSE R(UnsupportedSchemeError(u), <<>>, s)

remove_file(s, u, fault) ==
  IF Available(u)
  THEN LET d == drv_remove_file(s, u, fault)
       IN  R(d.st,
             <<Call(u, IF is_s3_uri(u) THEN "remove_object" ELSE "remove_file")>>,
             d.fs)
  ELSE IF NotCompiled(u) THEN R(NotBuilt(u), <<>>, s)
  ELSE R(UnsupportedSchemeError(u), <<>>, s)

file_size(s, u, fault) ==
  IF Available(u)
  THEN LET d == drv_file_size(s, u, fault)
       IN  [R(d.st,
              <<Call(u, IF is_s3_uri(u) THEN "object_size" ELSE "file_size")>>,
              s) EXCEPT !.size = d.size]
  ELSE IF NotCompiled(u) THEN R(NotBuilt(u), <<>>, s)
  ELSE R(UnsupportedSchemeError(u), <<>>, s)

\* a slip: a location of no storage scheme gets the error of a backend that
\* is not built in
sync_other_as_not_built(s, u, fault) ==
  IF is_file_uri(u) \/ (is_hdfs_uri(u) /\ HAVE_HDFS)
  THEN R(drv_sync(s, u, fault), <<Call(u, "sync")>>, s)
  ELSE IF is_s3_uri(u) /\ HAVE_S3 THEN R(Ok, <<>>, s)
  ELSE R(NotBuilt(u), <<>>, s)

sync(s, u, fault) ==
  IF is_file_uri(u) \/ (is_hdfs_uri(u) /\ HAVE_HDFS)
  THEN R(drv_sync(s, u, fault), <<Call(u, "sync")>>, s)
  ELSE IF is_s3_uri(u) /\ HAVE_S3 THEN R(Ok, <<>>, s)
  ELSE IF NotCompiled(u) THEN R(NotBuilt(u), <<>>, s)
  ELSE R(UnsupportedSchemesError(u), <<>>, s)

close_file(s, u, fault) ==
  IF Available(u)
  THEN R(drv_sync(s, u, fault),
         <<Call(u, IF is_s3_uri(u) THEN "flush_object" ELSE "sync")>>, s)
  ELSE IF NotCompiled(u) THEN R(NotBuilt(u), <<>>, s)
  ELSE R(UnsupportedSchemesError(u), <<>>, s)

write(s, u, bytes, fault) ==
  IF Available(u)
  THEN LET d == drv_write(s, u, bytes, fault)
       IN  R(d.st, <<Call(u, "write")>>, d.fs)
  ELSE IF NotCompiled(u) THEN R(NotBuilt(u), <<>>, s)
  ELSE R(UnsupportedSchemesError(u), <<>>, s)


\* VFS::filelock_lock and VFS::filelock_unlock dispatch alike
\* a slip: the lock call is forwarded to the driver on every backend
filelock_forward_all(s, u, op, fault) ==
  IF Available(u) THEN R(drv_sync(s, u, fault), <<Call(u, op)>>, s)
  ELSE IF NotCompiled(u) THEN R(NotBuilt(u), <<>>, s)
  ELSE R(UnsupportedSchemeError(u), <<>>, s)

filelock(s, u, op, fault) ==
  IF is_file_uri(u) THEN R(drv_sync(s, u, fault), <<Call(u, op)>>, s)
  ELSE IF Available(u) THEN R(Ok, <<>>, s)
  ELSE IF NotCompiled(u) THEN R(NotBuilt(u), <<>>, s)
  ELSE R(UnsupportedSchemeError(u), <<>>, s)

filelock_lock(s, u, fault) == filelock(s, u, "filelock_lock", fault)
filelock_unlock(s, u, fault) == filelock(s, u, "filelock_unlock", fault)

(***************************************************************************)
(* The bucket operations. The one bucket of the model holds the S3         *)
(* locations; whether it exists is the driver's answer, drawn as an input. *)
(***************************************************************************)
drv_empty_bucket(s, u, fault) ==
  IF fault THEN [st |-> DriverError, fs |-> s]
  ELSE [st |-> Ok, fs |-> [v \in DOMAIN s |-> IF is_s3_uri(v) THEN NoEnt ELSE s[v]]]

drv_is_empty_bucket(s, u) == \A v \in DOMAIN s : is_s3_uri(v) => s[v] = NoEnt

\* a slip: a bucket operation is forwarded whatever the scheme
create_bucket_any(s, u, fault) ==
  IF u \in StorageLocs /\ (is_s3_uri(u) => HAVE_S3)
  THEN R(IF fault THEN DriverError ELSE Ok, <<Call(u, "create_bucket")>>, s)
  ELSE IF is_s3_uri(u) THEN R(S3NotSupportedError, <<>>, s)
  ELSE R(CreateBucketSchemeError(u), <<>>, s)

create_bucket(s, u, fault) ==
  IF is_s3_uri(u)
  THEN IF HAVE_S3
       THEN R(IF fault THEN DriverError ELSE Ok, <<Call(u, "create_bucket")>>, s)
       ELSE R(S3NotSupportedError, <<>>, s)
  ELSE R(CreateBucketSchemeError(u), <<>>, s)

remove_bucket(s, u, fault) ==
  IF is_s3_uri(u)
  THEN IF HAVE_S3
       THEN LET d == drv_empty_bucket(s, u, fault)
            IN  R(d.st, <<Call(u, "remove_bucket")>>, d.fs)
       ELSE R(S3NotSupportedError, <<>>, s)
  ELSE R(RemoveBucketSchemeError(u), <<>>, s)

empty_bucket(s, u, fault) ==
  IF is_s3_uri(u)
  THEN IF HAVE_S3
       THEN LET d == drv_empty_bucket(s, u, fault)
            IN  R(d.st, <<Call(u, "empty_bucket")>>, d.fs)
       ELSE R(S3NotSupportedError, <<>>, s)
  ELSE R(RemoveBucketSchemeError(u), <<>>, s)

is_empty_bucket(s, u, fault) ==
  IF is_s3_uri(u)
  THEN IF HAVE_S3
       THEN IF fault THEN R(DriverError, <<Call(u, "is_empty_bucket")>>, s)
            ELSE [R(Ok, <<Call(u, "is_empty_bucket")>>, s)
                    EXCEPT !.out = drv_is_empty_bucket(s, u)]
       ELSE R(S3NotSupportedError, <<>>, s)
  ELSE R(RemoveBucketSchemeError(u), <<>>, s)

\* exists is the driver's answer
is_bucket(s, u, exists) ==
  IF is_s3_uri(u)
  THEN IF HAVE_S3
       THEN [R(Ok, <<Call(u, "is_bucket")>>, s) EXCEPT !.out = exists]
       ELSE R(NoS3Error, <<>>, s)
  ELSE R(UnsupportedSchemeError(u), <<>>, s)

(***************************************************************************)
(* VFS::ls. A path is modelled by its rank in the lexicographic order of   *)
(* the path strings; listed is what the driver returned, in its order.     *)
(***************************************************************************)
MaxEntries == 2

RECURSIVE Insert(_, _)
Insert(x, sq) ==
  IF sq = <<>> THEN <<x>>
  ELSE IF x <= Head(sq) THEN <<x>> \o sq
  ELSE <<Head(sq)>> \o Insert(x, Tail(sq))

\* std::sort(paths.begin(), paths.end())
RECURSIVE Sort(_)
Sort(sq) == IF sq = <<>> THEN <<>> ELSE Insert(Head(sq), Sort(Tail(sq)))

\* the listings a driver may return: the entries of a directory in any order
Listings ==
  {sq \in UNION {[1..n -> 1..MaxEntries] : n \in 0..MaxEntries} :
     \A i, j \in DOMAIN sq : i # j => sq[i] # sq[j]}

\* a slip: the paths are handed on in the driver's order
ls_unsorted(s, u, listed, fault) ==
  IF Available(u)
  THEN IF fault THEN R(DriverError, <<Call(u, "ls")>>, s)
       ELSE [R(Ok, <<Call(u, "ls")>>, s) EXCEPT !.uris = listed]
  ELSE IF NotCompiled(u) THEN R(NotBuilt(u), <<>>, s)
  ELSE R(UnsupportedSchemeError(u), <<>>, s)

\* uris is what the call appends to the caller's vector
ls(s, u, listed, fault) ==
  IF Available(u)
  THEN IF fault THEN R(DriverError, <<Call(u, "ls")>>, s)
       ELSE [R(Ok, <<Call(u, "ls")>>, s) EXCEPT !.uris = Sort(listed)]
  ELSE IF NotCompiled(u) THEN R(NotBuilt(u), <<>>, s)
  ELSE R(UnsupportedSchemeError(u), <<>>, s)

(***************************************************************************)
(* VFS::move_file and VFS::move_dir.                                       *)
(***************************************************************************)
\* a slip: a move from a local path to another scheme is reported as done
move_dispatch_local_any(s, pre, old, new, s3op, fault) ==
  IF is_file_uri(old)
  THEN IF is_file_uri(new)
       THEN LET d == drv_move_path(s, old, new, fault)
            IN  R(d.st, pre \o <<Call(old, "move_path")>>, d.fs)
       ELSE R(Ok, pre, s)
  ELSE IF is_hdfs_uri(old)
  THEN IF is_hdfs_uri(new)
       THEN IF HAVE_HDFS
            THEN LET d == drv_move_path(s, old, new, fault)
                 IN  R(d.st, pre \o <<Call(old, "move_path")>>, d.fs)
            ELSE R(NoHdfsError, pre, s)
       ELSE R(CrossFsError, pre, s)
  ELSE IF is_s3_uri(old)
  THEN IF is_s3_uri(new)
       THEN IF HAVE_S3
            THEN LET d == drv_move_path(s, old, new, fault)
                 IN  R(d.st, pre \o <<Call(old, s3op)>>, d.fs)
            ELSE R(NoS3Error, pre, s)
       ELSE R(CrossFsError, pre, s)
  ELSE R(UnsupportedSchemesError(old), pre, s)

\* the per-scheme part the two moves share; op is the S3 driver's operation
move_dispatch(s, pre, old, new, s3op, fault) ==
  IF is_file_uri(old)
  THEN IF is_file_uri(new)
       THEN LET d == drv_move_path(s, old, new, fault)
            IN  R(d.st, pre \o <<Call(old, "move_path")>>, d.fs)
       ELSE R(CrossFsError, pre, s)
  ELSE IF is_hdfs_uri(old)
  THEN IF is_hdfs_uri(new)
       THEN IF HAVE_HDFS
            THEN LET d == drv_move_path(s, old, new, fault)
                 IN  R(d.st, pre \o <<Call(old, "move_path")>>, d.fs)
            ELSE R(NoHdfsError, pre, s)
       ELSE R(CrossFsError, pre, s)
  ELSE IF is_s3_uri(old)
  THEN IF is_s3_uri(new)
       THEN IF HAVE_S3
            THEN LET d == drv_move_path(s, old, new, fault)
                 IN  R(d.st, pre \o <<Call(old, s3op)>>, d.fs)
            ELSE R(NoS3Error, pre, s)
       ELSE R(CrossFsError, pre, s)
  ELSE R(UnsupportedSchemesError(old), pre, s)

\* a slip: the file at the destination is not removed before the move
move_file_no_remove(s, old, new, rmfault, fault) ==
  LET chk == is_file(s, new)
  IN  IF chk.st # Ok THEN R(chk.st, chk.drv, s)
      ELSE move_dispatch(s, chk.drv, old, new, "move_object", fault)

move_file(s, old, new, rmfault, fault) ==
  LET chk == is_file(s, new)
      rm == remove_file(s, new, rmfault)
  IN  IF chk.st # Ok THEN R(chk.st, chk.drv, s)
      ELSE IF chk.out /\ rm.st # Ok THEN R(rm.st, chk.drv \o rm.drv, s)
      ELSE IF chk.out
      THEN move_dispatch(rm.fs, chk.drv \o rm.drv, old, new, "move_object", fault)
      ELSE move_dispatch(s, chk.drv, old, new, "move_object", fault)

move_dir(s, old, new, fault) ==
  move_dispatch(s, <<>>, old, new, "move_dir", fault)

(***************************************************************************)
(* VFS::open_file.                                                         *)
(***************************************************************************)
Modes == {"VFS_READ", "VFS_WRITE", "VFS_APPEND"}

\* a slip: write mode leaves an existing file in place
open_file_keep(s, u, mode, fault) ==
  LET chk == is_file(s, u)
  IN  IF chk.st # Ok THEN R(chk.st, chk.drv, s)
      ELSE IF mode = "VFS_READ" /\ ~chk.out
      THEN R(NotFoundError(u), chk.drv, s)
      ELSE IF mode = "VFS_APPEND" /\ is_s3_uri(u)
      THEN R(NoAppendError(u), chk.drv, s)
      ELSE R(Ok, chk.drv, s)

\* a slip: append mode is accepted on every scheme
open_file_append_any(s, u, mode, fault) ==
  LET chk == is_file(s, u)
      rm == remove_file(s, u, fault)
  IN  IF chk.st # Ok THEN R(chk.st, chk.drv, s)
      ELSE IF mode = "VFS_READ" /\ ~chk.out
      THEN R(NotFoundError(u), chk.drv, s)
      ELSE IF mode = "VFS_WRITE" /\ chk.out
      THEN R(rm.st, chk.drv \o rm.drv, rm.fs)
      ELSE R(Ok, chk.drv, s)

\* a slip: read mode creates the file it does not find
open_file_read_creates(s, u, mode, fault) ==
  LET chk == is_file(s, u)
      rm == remove_file(s, u, fault)
      mk == touch(s, u, fault)
  IN  IF chk.st # Ok THEN R(chk.st, chk.drv, s)
      ELSE IF mode = "VFS_READ"
      THEN IF ~chk.out THEN R(mk.st, chk.drv \o mk.drv, mk.fs)
           ELSE R(Ok, chk.drv, s)
      ELSE IF mode = "VFS_WRITE" /\ chk.out
      THEN R(rm.st, chk.drv \o rm.drv, rm.fs)
      ELSE IF mode = "VFS_APPEND" /\ is_s3_uri(u)
      THEN R(NoAppendError(u), chk.drv, s)
      ELSE R(Ok, chk.drv, s)

open_file(s, u, mode, fault) ==
  LET chk == is_file(s, u)
      rm == remove_file(s, u, fault)
  IN  IF chk.st # Ok THEN R(chk.st, chk.drv, s)
      ELSE IF mode = "VFS_READ"
      THEN IF ~chk.out THEN R(NotFoundError(u), chk.drv, s)
           ELSE R(Ok, chk.drv, s)
      ELSE IF mode = "VFS_WRITE"
      THEN IF chk.out THEN R(rm.st, chk.drv \o rm.drv, rm.fs)
           ELSE R(Ok, chk.drv, s)
      ELSE IF is_s3_uri(u)
           THEN IF HAVE_S3 THEN R(NoAppendError(u), chk.drv, s)
                ELSE R(NoAppendNoS3Error, chk.drv, s)
           ELSE R(Ok, chk.drv, s)


(***************************************************************************)
(* VFS::read: the split of one read into chunk tasks.                      *)
(***************************************************************************)
\* utils::ceil: the quotient rounded up
ceil(x, y) == (x \div y) + (IF x % y # 0 THEN 1 ELSE 0)

\* a slip: the number of operations is not capped at the pool size
NumOpsUncapped(nbytes, min_parallel_size, num_threads) ==
  Max(nbytes \div min_parallel_size, 1)

\* std::min(std::max(nbytes / min_parallel_size_, 1), num_threads())
NumOps(nbytes, min_parallel_size, num_threads) ==
  Min(Max(nbytes \div min_parallel_size, 1), num_threads)

\* thread_read_nbytes
ChunkSize(nbytes, num_ops) == ceil(nbytes, num_ops)

ChunkBegin(nbytes, num_ops, i) == (i * ChunkSize(nbytes, num_ops)) % UInt64Range

ChunkEnd(nbytes, num_ops, i) ==
  Min(((i + 1) * ChunkSize(nbytes, num_ops) - 1) % UInt64Range, nbytes - 1)

\* the file offset of chunk task i
ThreadOffset(offset, nbytes, num_ops, i) ==
  (offset + ChunkBegin(nbytes, num_ops, i)) % UInt64Range

\* a slip: every chunk task is handed the start of the caller's buffer
ThreadBufferNoBegin(nbytes, num_ops, i) == 0

\* the position in the caller's buffer chunk task i writes from
ThreadBuffer(nbytes, num_ops, i) == ChunkBegin(nbytes, num_ops, i)

\* the length chunk task i reads: end - begin + 1 in uint64_t
ThreadNBytes(nbytes, num_ops, i) ==
  (ChunkEnd(nbytes, num_ops, i) - ChunkBegin(nbytes, num_ops, i) + 1)
    % UInt64Range

\* the chunk task the loop enqueues at index i
ChunkTask(offset, nbytes, num_ops, i) ==
  [offset |-> ThreadOffset(offset, nbytes, num_ops, i),
   buffer |-> ThreadBuffer(nbytes, num_ops, i),
   nbytes |-> ThreadNBytes(nbytes, num_ops, i)]

\* a driver read succeeds when it does not fail and the range is in the file
drv_read_ok(s, u, offset, nbytes, fault) ==
  /\ ~fault
  /\ s[u].k = "file"
  /\ offset + nbytes <= Len(s[u].data)

\* the bytes of the file a driver read of this range can deliver
drv_read_avail(s, u, offset, nbytes) ==
  IF s[u].k # "file" \/ offset >= Len(s[u].data) THEN 0
  ELSE Min(nbytes, Len(s[u].data) - offset)

\* VFS::read_impl: the status and the driver call
read_impl(s, u, offset, nbytes, fault) ==
  IF Available(u)
  THEN R(IF drv_read_ok(s, u, offset, nbytes, fault) THEN Ok ELSE DriverError,
         <<Call(u, "read")>>, s)
  ELSE IF NotCompiled(u) THEN R(NotBuilt(u), <<>>, s)
  ELSE R(UnsupportedSchemesError(u), <<>>, s)

\* ThreadPool::wait_all: true when every task returned Ok
wait_all(results) == \A k \in DOMAIN results : results[k] = Ok

\* a slip: the failure of a chunk is handed on instead of the aggregate
read_status_chunk_error(all_ok) == IF all_ok THEN Ok ELSE DriverError

\* what VFS::read returns after wait_all
read_status(all_ok) == IF all_ok THEN Ok ELSE ParallelReadError

\* VFS::read as one call; faults are the indices of the failing driver reads
read(s, u, offset, nbytes, faults) ==
  LET n == NumOps(nbytes, vfs_params_.min_parallel_size_, thread_pool_)
      res == [k \in 1..n |->
                LET t == ChunkTask(offset, nbytes, n, k - 1)
                IN  read_impl(s, u, t.offset, t.nbytes, (k - 1) \in faults)]
  IN  IF n = 1 THEN read_impl(s, u, offset, nbytes, 0 \in faults)
      ELSE [R(read_status(wait_all([k \in 1..n |-> res[k].st])),
              IF Available(u) THEN [k \in 1..n |-> Call(u, "read")] ELSE <<>>,
              s) EXCEPT !.pool = n]


(***************************************************************************)
(* The state after construction (VFS::VFS) and the facade's actions.       *)
(***************************************************************************)
\* the value of vfs_params_ before init: a default-constructed VFSParams
DefaultParams ==
  [max_parallel_ops_ |-> MaxThreads, min_parallel_size_ |-> MaxMinParallelSize]

\* the configuration init is given by the facade specification
FacadeParams ==
  {[max_parallel_ops_ |-> MaxThreads, min_parallel_size_ |-> MaxMinParallelSize]}

\* the contents of the files of the facade specification: empty or one byte
FileContents == {<<>>, <<1>>}

Entities == {NoEnt, DirEnt} \cup {FileEnt(d) : d \in FileContents}

\* the backends' contents the facade specification ranges over
Objects(s) == {u \in StorageLocs : s[u].k # "none"}
WithinBounds(s) ==
  /\ Cardinality(Objects(s)) <= MaxObjects
  /\ \A u \in StorageLocs : s[u].data \in FileContents

NoCall ==
  [op |-> "none", uri |-> "", uri2 |-> "", mode |-> "", st |-> Ok,
   drv |-> <<>>, pool |-> 0, out |-> FALSE, size |-> 0, uris |-> <<>>,
   listed |-> <<>>, pre |-> <<>>, at |-> ""]

IdleRead ==
  [pc |-> "idle", uri |-> "", offset |-> 0, nbytes |-> 0, num_ops |-> 0,
   i |-> 0, st |-> Ok, drv |-> 0, order |-> <<>>]

ZeroMem == [p \in 0..(MemSize - 1) |-> 0]

Init ==
  /\ supported_fs_ \in SUBSET {"HDFS", "S3"}
  /\ vfs_params_ = DefaultParams
  /\ thread_pool_ = 0
  /\ connected = {}
  /\ lifecycle = "Uninitialized"
  /\ fs \in {s \in [StorageLocs -> Entities] : WithinBounds(s)}
  /\ last = NoCall
  /\ rd = IdleRead
  /\ tasks = <<>>
  /\ mem = ZeroMem
  /\ held = {}

\* the call is recorded with the state it was made in, and takes effect
Effect(op, u, u2, mode, listed, r) ==
  /\ last' = [op |-> op, uri |-> u, uri2 |-> u2, mode |-> mode, st |-> r.st,
              drv |-> r.drv, pool |-> r.pool, out |-> r.out, size |-> r.size,
              uris |-> r.uris, listed |-> listed, pre |-> fs,
              at |-> lifecycle]
  /\ fs' = r.fs
  /\ UNCHANGED <<supported_fs_, vfs_params_, thread_pool_, connected,
                 lifecycle, rd, tasks, mem, held>>

\* the same, for the stores the facade specifications are bounded to
Record(op, u, u2, mode, listed, result) ==
  \E r \in {result} :
    WithinBounds(r.fs) /\ Effect(op, u, u2, mode, listed, r)

Alive == lifecycle # "Crashed"

\* VFS::init; the three flags say which of its steps fails. The record of
\* the call holds the connections it made (drv) and the thread pools it
\* created (pool).
VFS_init(params, poolfail, hdfsfail, s3fail) ==
  LET st == IF poolfail
            THEN VFSError("Could not create VFS thread pool", "")
            ELSE IF (HAVE_HDFS /\ hdfsfail) \/ (HAVE_S3 /\ s3fail)
            THEN DriverError
            ELSE Ok
      conn == IF poolfail THEN {}
              ELSE (IF HAVE_HDFS /\ ~hdfsfail THEN {"HDFS"} ELSE {})
                   \cup (IF HAVE_S3 /\ ~(HAVE_HDFS /\ hdfsfail) /\ ~s3fail
                         THEN {"S3"} ELSE {})
  IN  /\ Alive
      /\ vfs_params_' = params
      /\ thread_pool_' = IF poolfail THEN 0 ELSE params.max_parallel_ops_
      /\ connected' = connected \cup conn
      /\ lifecycle' = IF st = Ok THEN "Ready" ELSE "InitFailed"
      /\ last' = [NoCall EXCEPT !.op = "init", !.st = st, !.pre = fs,
                                !.at = lifecycle,
                                !.pool = IF poolfail THEN 0 ELSE 1,
                                !.drv = [k \in 1..Cardinality(conn) |->
                                           <<"driver", "connect", "">>]]
      /\ UNCHANGED <<supported_fs_, fs, rd, tasks, mem, held>>

VFS_create_dir(u, fault) ==
  Alive /\ Record("create_dir", u, "", "", <<>>, create_dir(fs, u, fault))

VFS_touch(u, fault) ==
  Alive /\ Record("touch", u, "", "", <<>>, touch(fs, u, fault))

VFS_remove_dir(u, fault) ==
  Alive /\ Record("remove_dir", u, "", "", <<>>, remove_dir(fs, u, fault))

VFS_remove_file(u, fault) ==
  Alive /\ Record("remove_file", u, "", "", <<>>, remove_file(fs, u, fault))

VFS_filelock_lock(u, fault) ==
  Alive /\ Record("filelock_lock", u, "", "", <<>>, filelock_lock(fs, u, fault))

VFS_filelock_unlock(u, fault) ==
  Alive
  /\ Record("filelock_unlock", u, "", "", <<>>, filelock_unlock(fs, u, fault))

VFS_create_bucket(u, fault) ==
  Alive /\ Record("create_bucket", u, "", "", <<>>, create_bucket(fs, u, fault))

VFS_remove_bucket(u, fault) ==
  Alive /\ Record("remove_bucket", u, "", "", <<>>, remove_bucket(fs, u, fault))

VFS_empty_bucket(u, fault) ==
  Alive /\ Record("empty_bucket", u, "", "", <<>>, empty_bucket(fs, u, fault))

VFS_is_empty_bucket(u, fault) ==
  Alive
  /\ Record("is_empty_bucket", u, "", "", <<>>, is_empty_bucket(fs, u, fault))

VFS_is_bucket(u, exists) ==
  Alive /\ Record("is_bucket", u, "", "", <<>>, is_bucket(fs, u, exists))

VFS_file_size(u, fault) ==
  Alive /\ Record("file_size", u, "", "", <<>>, file_size(fs, u, fault))

VFS_is_dir(u, fault) ==
  Alive /\ Record("is_dir", u, "", "", <<>>, is_dir(fs, u, fault))

VFS_is_file(u) ==
  Alive /\ Record("is_file", u, "", "", <<>>, is_file(fs, u))

VFS_ls(u, listed, fault) ==
  Alive /\ Record("ls", u, "", "", listed, ls(fs, u, listed, fault))

VFS_move_file(old, new, rmfault, fault) ==
  Alive
  /\ Record("move_file", old, new, "", <<>>,
            move_file(fs, old, new, rmfault, fault))

VFS_move_dir(old, new, fault) ==
  Alive /\ Record("move_dir", old, new, "", <<>>, move_dir(fs, old, new, fault))

VFS_sync(u, fault) ==
  Alive /\ Record("sync", u, "", "", <<>>, sync(fs, u, fault))

VFS_open_file(u, mode, fault) ==
  Alive /\ Record("open_file", u, "", mode, <<>>, open_file(fs, u, mode, fault))

VFS_close_file(u, fault) ==
  Alive /\ Record("close_file", u, "", "", <<>>, close_file(fs, u, fault))

\* one byte is written
VFS_write(u, fault) ==
  /\ Alive
  /\ Record("write", u, "", "", <<>>,
            write(fs, u,
                  <<IF u \in StorageLocs THEN Len(fs[u].data) + 1 ELSE 1>>,
                  fault))

\* VFS::read as one call. Before init thread_pool_ is nullptr and the call
\* dereferences it: the process is killed.
VFS_read(u, offset, nbytes, faults) ==
  /\ Alive
  /\ IF thread_pool_ = 0
     THEN /\ lifecycle' = "Crashed"
          /\ last' = [NoCall EXCEPT !.op = "read", !.uri = u, !.pre = fs,
                                    !.at = lifecycle,
                                    !.st = [code |-> "SIGSEGV", msg |-> "",
                                            uri |-> ""]]
          /\ UNCHANGED <<supported_fs_, vfs_params_, thread_pool_, connected,
                         fs, rd, tasks, mem, held>>
     ELSE Record("read", u, "", "", <<>>, read(fs, u, offset, nbytes, faults))

\* the driver faults worth drawing for a call on u
Faults(u) == IF Available(u) THEN BOOLEAN ELSE {FALSE}

\* the paths a driver's ls hands back: none when it is not called or fails
\* (the vector it filled is a local of VFS::ls, dropped on the early return)
DrvListings(u, fault) ==
  IF Available(u) /\ ~fault THEN Listings ELSE {<<>>}

\* the same for a bucket operation, which only the S3 driver serves
BucketFaults(u) == IF is_s3_uri(u) /\ HAVE_S3 THEN BOOLEAN ELSE {FALSE}

\* the state of a VFS constructed and initialized with params
InitReady ==
  /\ supported_fs_ \in SUBSET {"HDFS", "S3"}
  /\ vfs_params_ \in FacadeParams
  /\ thread_pool_ = vfs_params_.max_parallel_ops_
  /\ connected = supported_fs_
  /\ lifecycle = "Ready"
  /\ fs \in {s \in [StorageLocs -> Entities] : WithinBounds(s)}
  /\ last = NoCall
  /\ rd = IdleRead
  /\ tasks = <<>>
  /\ mem = ZeroMem
  /\ held = {}

InitStep ==
  \E params \in FacadeParams, pf, hf, sf \in BOOLEAN :
    VFS_init(params, pf, hf, sf)

Next ==
  \/ \E u \in Locations : \E f \in Faults(u) : VFS_create_dir(u, f)
  \/ \E u \in Locations : \E f \in Faults(u) : VFS_touch(u, f)
  \/ \E u \in Locations : \E f \in Faults(u) : VFS_remove_dir(u, f)
  \/ \E u \in Locations : \E f \in Faults(u) : VFS_remove_file(u, f)
  \/ \E u \in Locations : \E f \in Faults(u) : VFS_filelock_lock(u, f)
  \/ \E u \in Locations : \E f \in Faults(u) : VFS_filelock_unlock(u, f)
  \/ \E u \in Locations : \E f \in Faults(u) : VFS_file_size(u, f)
  \/ \E u \in Locations : \E f \in BucketFaults(u) : VFS_create_bucket(u, f)
  \/ \E u \in Locations : \E f \in BucketFaults(u) : VFS_remove_bucket(u, f)
  \/ \E u \in Locations : \E f \in BucketFaults(u) : VFS_empty_bucket(u, f)
  \/ \E u \in Locations : \E f \in BucketFaults(u) : VFS_is_empty_bucket(u, f)
  \/ \E u \in Locations : \E e \in BucketFaults(u) : VFS_is_bucket(u, e)
  \/ \E u \in Locations : \E f \in Faults(u) : VFS_is_dir(u, f)
  \/ \E u \in Locations : VFS_is_file(u)
  \/ \E u \in Locations :
       \E f \in Faults(u) : \E l \in DrvListings(u, f) : VFS_ls(u, l, f)
  \/ \E old, new \in Locations : \E rf \in Faults(new), f \in Faults(old) :
       VFS_move_file(old, new, rf, f)
  \/ \E old, new \in Locations : \E f \in Faults(old) : VFS_move_dir(old, new, f)
  \/ \E u \in Locations : \E f \in Faults(u) : VFS_sync(u, f)
  \/ \E u \in Locations, m \in Modes : \E f \in Faults(u) : VFS_open_file(u, m, f)
  \/ \E u \in Locations : \E f \in Faults(u) : VFS_close_file(u, f)
  \/ \E u \in Locations : \E f \in Faults(u) : VFS_write(u, f)
  \/ \E u \in Locations, nbytes \in {1, MaxNBytes},
        faults \in {{}, {0}, {MaxThreads - 1}} :
       VFS_read(u, 0, nbytes, faults)

Spec == InitReady /\ [][Next]_vars

NextLife == InitStep \/ Next

SpecLife == Init /\ [][NextLife]_vars


(***************************************************************************)
(* VFS::read step by step. The calling thread computes num_ops, then       *)
(* either reads synchronously or enqueues one task per chunk and waits;    *)
(* the pool runs the enqueued tasks in any order, also while the loop is   *)
(* still enqueuing.                                                        *)
(***************************************************************************)
\* what a driver read leaves in memory: all nbytes bytes on success; on a
\* failure nothing, or (partial) the bytes of the range the file has
ReadInto(m, s, u, offset, nbytes, buffer, ok, partial) ==
  LET count == IF ok THEN nbytes
               ELSE IF partial THEN drv_read_avail(s, u, offset, nbytes)
               ELSE 0
  IN  [p \in 0..(MemSize - 1) |->
         IF buffer <= p /\ p < buffer + count
         THEN s[u].data[offset + (p - buffer) + 1]
         ELSE m[p]]

\* the memory after read_impl(u, offset, buffer, nbytes)
read_impl_mem(m, s, u, offset, nbytes, buffer, fault, partial) ==
  IF Available(u)
  THEN ReadInto(m, s, u, offset, nbytes, buffer,
                drv_read_ok(s, u, offset, nbytes, fault), partial)
  ELSE m

\* the locations the stepwise specification reads from
ReadLocs == Locations \ {"file:///b"}

InitRead ==
  /\ supported_fs_ \in SUBSET {"HDFS", "S3"}
  /\ thread_pool_ \in 1..MaxThreads
  /\ vfs_params_ \in
       {[max_parallel_ops_ |-> thread_pool_, min_parallel_size_ |-> m] :
          m \in 1..MaxMinParallelSize}
  /\ connected = supported_fs_
  /\ lifecycle = "Ready"
  /\ fs = [u \in StorageLocs |-> FileEnt(Bytes(ReadFileLen))]
  /\ last = NoCall
  /\ rd = IdleRead
  /\ tasks = <<>>
  /\ mem = ZeroMem
  /\ held = {}

Frame == UNCHANGED <<supported_fs_, vfs_params_, thread_pool_, connected,
                     lifecycle, fs, last, held>>

\* the call: num_ops is computed and the path is chosen
ReadStart(u, offset, nbytes) ==
  /\ rd.pc = "idle"
  /\ LET n == NumOps(nbytes, vfs_params_.min_parallel_size_, thread_pool_)
     IN  rd' = [pc |-> IF n = 1 THEN "single" ELSE "enqueue", uri |-> u,
                offset |-> offset, nbytes |-> nbytes, num_ops |-> n, i |-> 0,
                st |-> Ok, drv |-> 0, order |-> <<>>]
  /\ tasks' = <<>>
  /\ mem' = ZeroMem
  /\ Frame

\* num_ops == 1: read_impl in the calling thread
ReadSingle(fault, partial) ==
  /\ rd.pc = "single"
  /\ \E r \in {read_impl(fs, rd.uri, rd.offset, rd.nbytes, fault)} :
       rd' = [rd EXCEPT !.pc = "done", !.st = r.st, !.drv = Len(r.drv)]
  /\ mem' = read_impl_mem(mem, fs, rd.uri, rd.offset, rd.nbytes, 0, fault,
                          partial)
  /\ UNCHANGED tasks
  /\ Frame

\* what wait_all finds for a task the pool did not accept: a future that is
\* not valid
InvalidFuture == [code |-> "InvalidFuture", msg |-> "", uri |-> ""]

\* one iteration of the loop: chunk task i is enqueued; the future the pool
\* returns is stored unchecked, whether or not the pool accepted the task
ReadEnqueue(accepted) ==
  /\ rd.pc = "enqueue"
  /\ tasks' = Append(tasks,
                     [offset |-> ThreadOffset(rd.offset, rd.nbytes,
                                              rd.num_ops, rd.i),
                      buffer |-> ThreadBuffer(rd.nbytes, rd.num_ops, rd.i),
                      nbytes |-> ThreadNBytes(rd.nbytes, rd.num_ops, rd.i),
                      state |-> IF accepted THEN "queued" ELSE "invalid",
                      st |-> IF accepted THEN Ok ELSE InvalidFuture])
  /\ rd' = [rd EXCEPT !.i = rd.i + 1,
                      !.pc = IF rd.i + 1 = rd.num_ops THEN "wait"
                             ELSE "enqueue"]
  /\ UNCHANGED mem
  /\ Frame

\* a pool thread runs chunk task k: read_impl on its range and sub-buffer
RunTask(k, fault, partial) ==
  /\ k \in DOMAIN tasks
  /\ tasks[k].state = "queued"
  /\ \E r \in {read_impl(fs, rd.uri, tasks[k].offset, tasks[k].nbytes, fault)} :
       /\ tasks' = [tasks EXCEPT ![k].state = "done", ![k].st = r.st]
       /\ rd' = [rd EXCEPT !.drv = rd.drv + Len(r.drv),
                           !.order = Append(rd.order, k)]
  /\ mem' = read_impl_mem(mem, fs, rd.uri, tasks[k].offset, tasks[k].nbytes,
                          tasks[k].buffer, fault, partial)
  /\ Frame

\* a slip: the wait ends at the first task found to have failed
ReadWaitUntilFailure ==
  /\ rd.pc = "wait"
  /\ \E n \in DOMAIN tasks :
       /\ \A k \in 1..n : tasks[k].state \in {"done", "invalid"}
       /\ n = Len(tasks) \/ tasks[n].st # Ok
  /\ rd' = [rd EXCEPT !.pc = "done",
                      !.st = read_status(
                               wait_all([k \in DOMAIN tasks |-> tasks[k].st]))]
  /\ UNCHANGED <<tasks, mem>>
  /\ Frame

\* wait_all returns once every task the pool accepted has completed; read
\* returns its status
ReadWaitAll ==
  /\ rd.pc = "wait"
  /\ \A k \in DOMAIN tasks : tasks[k].state \in {"done", "invalid"}
  /\ rd' = [rd EXCEPT !.pc = "done",
                      !.st = read_status(
                               wait_all([k \in DOMAIN tasks |-> tasks[k].st]))]
  /\ UNCHANGED <<tasks, mem>>
  /\ Frame

\* the caller takes the result; the next read starts afresh
ReadReturn ==
  /\ rd.pc = "done"
  /\ rd' = IdleRead
  /\ tasks' = <<>>
  /\ mem' = ZeroMem
  /\ Frame

NextRead ==
  \/ \E u \in ReadLocs, offset \in 0..MaxOffset, nbytes \in 1..MaxNBytes :
       ReadStart(u, offset, nbytes)
  \/ \E fault, partial \in BOOLEAN : ReadSingle(fault, partial)
  \/ \E accepted \in BOOLEAN : ReadEnqueue(accepted)
  \/ \E k \in 1..MaxThreads, fault, partial \in BOOLEAN :
       RunTask(k, fault, partial)
  \/ ReadWaitAll
  \/ ReadReturn

SpecRead == InitRead /\ [][NextRead]_vars


(***************************************************************************)
(* move_file on stores with a file at the source and at the destination.   *)
(***************************************************************************)
MoveEntities == {NoEnt, DirEnt, FileEnt(<<>>), FileEnt(<<1>>)}

InitMove ==
  /\ supported_fs_ \in SUBSET {"HDFS", "S3"}
  /\ vfs_params_ \in FacadeParams
  /\ thread_pool_ = vfs_params_.max_parallel_ops_
  /\ connected = supported_fs_
  /\ lifecycle = "Ready"
  /\ fs \in [StorageLocs -> MoveEntities]
  /\ last = NoCall
  /\ rd = IdleRead
  /\ tasks = <<>>
  /\ mem = ZeroMem
  /\ held = {}

MoveFile(old, new, rmfault, fault) ==
  \E r \in {move_file(fs, old, new, rmfault, fault)} :
    Effect("move_file", old, new, "", <<>>, r)

NextMove ==
  \E old, new \in Locations : \E rf \in Faults(new), f \in Faults(old) :
    MoveFile(old, new, rf, f)

SpecMove == InitMove /\ [][NextMove]_vars

(***************************************************************************)
(* Locking by several callers. held is the tokens the callers were given;  *)
(* for a local location the posix driver grants an exclusive lock to one   *)
(* caller at a time, and a call that conflicts does not return.            *)
(***************************************************************************)
MaxCallers == 2
MaxHeld == 2

Callers == 1..MaxCallers
LockLocs == {"file:///a", "hdfs://a", "s3://a"}

Token(c, u, shared) == [caller |-> c, uri |-> u, shared |-> shared]

\* the posix driver's advisory lock: another caller holds a lock on u that
\* excludes the one asked for
drv_lock_conflict(c, u, shared) ==
  \E h \in held :
    h.uri = u /\ h.caller # c /\ is_file_uri(u) /\ (~shared \/ ~h.shared)

InitLock ==
  /\ supported_fs_ \in SUBSET {"HDFS", "S3"}
  /\ vfs_params_ \in FacadeParams
  /\ thread_pool_ = vfs_params_.max_parallel_ops_
  /\ connected = supported_fs_
  /\ lifecycle = "Ready"
  /\ fs = [u \in StorageLocs |-> NoEnt]
  /\ last = NoCall
  /\ rd = IdleRead
  /\ tasks = <<>>
  /\ mem = ZeroMem
  /\ held = {}

LockFrame ==
  UNCHANGED <<supported_fs_, vfs_params_, thread_pool_, connected, lifecycle,
              fs, rd, tasks, mem>>

LockRecord(op, u, shared, r) ==
  last' = [NoCall EXCEPT !.op = op, !.uri = u, !.st = r.st, !.drv = r.drv,
                         !.mode = IF shared THEN "shared" ELSE "exclusive",
                         !.pre = fs, !.at = lifecycle]

\* caller c calls VFS::filelock_lock and keeps the token it is given
LockAcquire(c, u, shared, fault) ==
  /\ Cardinality(held) < MaxHeld
  /\ \A h \in held : ~(h.caller = c /\ h.uri = u)
  /\ ~drv_lock_conflict(c, u, shared)
  /\ \E r \in {filelock_lock(fs, u, fault)} :
       /\ LockRecord("filelock_lock", u, shared, r)
       /\ held' = IF r.st = Ok THEN held \cup {Token(c, u, shared)} ELSE held
  /\ LockFrame

\* caller c calls VFS::filelock_unlock with a token it holds
LockRelease(c, u, fault) ==
  /\ \E h \in held :
       /\ h.caller = c /\ h.uri = u
       /\ \E r \in {filelock_unlock(fs, u, fault)} :
            /\ LockRecord("filelock_unlock", u, h.shared, r)
            /\ held' = IF r.st = Ok THEN held \ {h} ELSE held
  /\ LockFrame

NextLock ==
  \/ \E c \in Callers, u \in LockLocs, shared \in BOOLEAN :
       \E f \in Faults(u) : LockAcquire(c, u, shared, f)
  \/ \E c \in Callers, u \in LockLocs : \E f \in Faults(u) :
       LockRelease(c, u, f)

SpecLock == InitLock /\ [][NextLock]_vars

(***************************************************************************)
(* Properties of the stepwise read (SpecRead).                             *)
(***************************************************************************)
\* every chunk task of the read in progress has been enqueued
AllEnqueued == rd.pc \in {"wait", "done"} /\ rd.num_ops > 1

\* the chunk tasks whose range holds byte b of the file
TasksHolding(b) ==
  {k \in DOMAIN tasks :
     tasks[k].offset <= b /\ b < tasks[k].offset + tasks[k].nbytes}

\* C1: once a read has enqueued its chunk tasks, their byte ranges partition
\* [offset, offset + nbytes): no task range reaches outside it and every byte
\* of it belongs to exactly one task.
C1_ChunksPartitionRange ==
  AllEnqueued =>
    /\ \A k \in DOMAIN tasks :
         /\ tasks[k].offset >= rd.offset
         /\ tasks[k].offset + tasks[k].nbytes <= rd.offset + rd.nbytes
    /\ \A b \in rd.offset..(rd.offset + rd.nbytes - 1) :
         Cardinality(TasksHolding(b)) = 1

\* the memory a read on the single-task path leaves when it succeeds
SingleTaskMem ==
  read_impl_mem(ZeroMem, fs, rd.uri, rd.offset, rd.nbytes, 0, FALSE, FALSE)

\* every chunk task that writes into the caller's buffer returned Ok
BufferTasksOk ==
  \A k \in DOMAIN tasks :
    tasks[k].buffer < rd.nbytes => tasks[k].state = "done" /\ tasks[k].st = Ok

\* C2: when a read on the multi-task path has returned and the chunk tasks
\* that fill the caller's buffer succeeded, the buffer mem[0..nbytes-1] holds
\* byte for byte what the single-task path leaves there, in whatever order
\* the tasks ran.
C2_MultiTaskBufferIdentical ==
  (rd.pc = "done" /\ rd.num_ops > 1 /\ BufferTasksOk) =>
    \A p \in 0..(rd.nbytes - 1) : mem[p] = SingleTaskMem[p]

\* a read of three or more chunks has returned Ok although its last chunk
\* task completed first
C2_Witness ==
  /\ rd.pc = "done"
  /\ rd.num_ops >= 3
  /\ rd.st = Ok
  /\ rd.offset > 0
  /\ rd.order[1] = rd.num_ops
  /\ \A p \in 0..(rd.nbytes - 1) : mem[p] = rd.offset + p + 1

\* C3: a read on the multi-task path returns Ok exactly when every chunk task
\* returned Ok; otherwise it returns the one parallel-read error, which is
\* the status of none of its chunk tasks.
C3_AggregateStatus ==
  (rd.pc = "done" /\ rd.num_ops > 1) =>
    /\ rd.st = Ok <=> \A k \in DOMAIN tasks : tasks[k].st = Ok
    /\ rd.st # Ok =>
         /\ rd.st = ParallelReadError
         /\ \A k \in DOMAIN tasks : tasks[k].st # rd.st

\* a read has returned the parallel-read error after one chunk task failed
\* in the driver and another succeeded
C3_Witness ==
  /\ rd.pc = "done"
  /\ rd.num_ops > 1
  /\ rd.st = ParallelReadError
  /\ \E k \in DOMAIN tasks : tasks[k].st = DriverError
  /\ \E k \in DOMAIN tasks : tasks[k].st = Ok


(***************************************************************************)
(* Properties of the facade (Spec, SpecLife). last is the call just made,  *)
(* last.pre the content of the backends it was made on.                    *)
(***************************************************************************)
IsFileAt(s, u) == u \in StorageLocs /\ s[u].k = "file"
IsDirAt(s, u) == u \in StorageLocs /\ s[u].k = "dir"

\* the driver operations a call made
DrvOps(drv) == {drv[k][2] : k \in DOMAIN drv}
MoveDrvOps == {"move_path", "move_object", "move_dir"}

UnaryOps ==
  {"create_dir", "touch", "remove_dir", "remove_file", "is_dir", "is_file",
   "file_size", "ls", "write", "sync", "open_file", "close_file",
   "filelock_lock", "filelock_unlock"}
MoveOps == {"move_file", "move_dir"}

\* the last call was a move between two different schemes
CrossSchemeMove ==
  last.op \in MoveOps /\ Scheme(last.uri) # Scheme(last.uri2)

\* move_file found a file at its destination and could not remove it
RemovalFailed ==
  /\ last.op = "move_file"
  /\ IsFileAt(last.pre, last.uri2)
  /\ IsFileAt(fs, last.uri2)

\* the error of a cross-scheme move that got as far as the scheme dispatch
CrossSchemeDispatchError ==
  IF Scheme(last.uri) = "other" THEN IsUnsupportedScheme(last.st)
  ELSE IsCrossFilesystem(last.st)

\* C4 as stated: a move between two different schemes always fails with the
\* cross-filesystem error.
C4_CrossSchemeAlwaysCrossFs == CrossSchemeMove => IsCrossFilesystem(last.st)

\* C4 amended: a move between two different schemes never succeeds and never
\* calls a driver's move. move_dir fails with the cross-filesystem error when
\* the source is Local, Distributed or ObjectStore, in every build, and with
\* the unsupported-scheme error when the source is Other. move_file first
\* checks the destination: it returns the unsupported-scheme error when the
\* destination is Other, the not-compiled error when the destination's backend
\* is not built in, the driver's error when the file at the destination could
\* not be removed, and otherwise fails as move_dir does.
C4_CrossSchemeMoveFails ==
  CrossSchemeMove =>
    /\ last.st # Ok
    /\ DrvOps(last.drv) \cap MoveDrvOps = {}
    /\ IF last.op = "move_file" /\ Scheme(last.uri2) = "other"
       THEN IsUnsupportedScheme(last.st)
       ELSE IF last.op = "move_file" /\ NotCompiled(last.uri2)
       THEN IsBackendNotCompiled(last.st)
       ELSE IF RemovalFailed THEN IsBackendError(last.st)
       ELSE CrossSchemeDispatchError

\* move_file from HDFS to S3 has failed with the cross-filesystem error in a
\* build without HDFS
C4_Witness ==
  /\ last.op = "move_file"
  /\ is_hdfs_uri(last.uri) /\ is_s3_uri(last.uri2)
  /\ ~HAVE_HDFS
  /\ IsCrossFilesystem(last.st)

\* the last call was made on a location whose backend is not built in
OnNotCompiled ==
  \/ last.op \in UnaryOps \cup {"read"} /\ NotCompiled(last.uri)
  \/ last.op \in MoveOps /\ (NotCompiled(last.uri) \/ NotCompiled(last.uri2))

\* C5 as stated: every dispatching operation on a location whose backend is
\* not built in fails with the not-compiled error and calls no driver.
C5_NotCompiledAlways ==
  OnNotCompiled => IsBackendNotCompiled(last.st) /\ last.drv = <<>>

\* C5 amended: such a call always fails and never calls the driver of the
\* backend that is not built in. Every operation on one location, a read on
\* the single-task path, move_file to such a destination and a move within
\* such a scheme fail with the not-compiled error and call no driver at all.
\* A read on the multi-task path submits its chunk tasks and returns the
\* parallel-read error. A move between different schemes gets the error of a
\* cross-scheme move; move_file from such a source to an available
\* destination first checks, and removes, the file at the destination.
C5_NotCompiledFails ==
  OnNotCompiled =>
    /\ last.st # Ok
    /\ \A k \in DOMAIN last.drv : Available(last.drv[k][3])
    /\ last.op \in UnaryOps =>
         IsBackendNotCompiled(last.st) /\ last.drv = <<>> /\ last.pool = 0
    /\ last.op = "read" =>
         /\ last.drv = <<>>
         /\ IF last.pool = 0 THEN IsBackendNotCompiled(last.st)
            ELSE last.st = ParallelReadError
    /\ (last.op \in MoveOps
        /\ (Scheme(last.uri) = Scheme(last.uri2)
            \/ (last.op = "move_file" /\ NotCompiled(last.uri2)))) =>
         IsBackendNotCompiled(last.st) /\ last.drv = <<>>
    /\ (last.op = "move_dir" /\ CrossSchemeMove) =>
         CrossSchemeDispatchError /\ last.drv = <<>>
    /\ (last.op = "move_file" /\ CrossSchemeMove /\ ~NotCompiled(last.uri2)) =>
         IF Scheme(last.uri2) = "other"
         THEN IsUnsupportedScheme(last.st) /\ last.drv = <<>>
         ELSE IF RemovalFailed THEN IsBackendError(last.st)
         ELSE CrossSchemeDispatchError

\* write on an HDFS location holding a file has failed with the not-compiled
\* error, without a driver call, in a build without HDFS
C5_Witness ==
  /\ last.op = "write"
  /\ is_hdfs_uri(last.uri) /\ ~HAVE_HDFS
  /\ IsFileAt(last.pre, last.uri)
  /\ IsBackendNotCompiled(last.st)
  /\ last.drv = <<>>

\* C6: a call made in another state than Ready fails without reaching a
\* driver or the thread pool.
C6_OnlyInReady ==
  (last.op \notin {"none", "init"} /\ last.at # "Ready") =>
    last.st # Ok /\ last.drv = <<>> /\ last.pool = 0

\* the last call was a successful open_file in write mode on a file
OpenedForWrite ==
  /\ last.op = "open_file"
  /\ last.mode = "VFS_WRITE"
  /\ last.st = Ok
  /\ IsFileAt(last.pre, last.uri)

\* C7: after open_file in write mode has succeeded on a location that held a
\* file, and before any write, the location holds no content: the file is
\* gone and a read of any length finds no byte.
C7_WriteOpenEmpties ==
  OpenedForWrite =>
    /\ fs[last.uri] = NoEnt
    /\ Len(fs[last.uri].data) = 0
    /\ \A n \in 1..MaxNBytes : drv_read_avail(fs, last.uri, 0, n) = 0

\* open_file in write mode has succeeded on a file that held a byte
C7_Witness == OpenedForWrite /\ last.pre[last.uri].data = <<1>>

OpenedIn(mode) == last.op = "open_file" /\ last.mode = mode

\* C8 as stated: open_file in append mode always fails with the no-append
\* error on an S3 location and always succeeds on a local one.
C8_AppendS3AlwaysNoAppend ==
  OpenedIn("VFS_APPEND") =>
    /\ is_s3_uri(last.uri) => IsNoAppend(last.st)
    /\ is_file_uri(last.uri) => last.st = Ok

\* C8 amended: open_file in append mode on an S3 location always fails,
\* whether or not the file exists: with the no-append error when S3 is built
\* in, with the not-compiled error when it is not. On a local location it
\* succeeds, whether or not the file exists. Nothing is changed either way.
C8_AppendS3Fails ==
  OpenedIn("VFS_APPEND") =>
    /\ is_s3_uri(last.uri) =>
         IF HAVE_S3 THEN IsNoAppend(last.st)
         ELSE IsBackendNotCompiled(last.st)
    /\ is_file_uri(last.uri) => last.st = Ok
    /\ fs = last.pre

\* open_file in append mode has failed with the no-append error on an S3
\* location that holds a file
C8_Witness ==
  /\ OpenedIn("VFS_APPEND")
  /\ is_s3_uri(last.uri)
  /\ IsFileAt(last.pre, last.uri)
  /\ IsNoAppend(last.st)

\* C9 as stated: open_file in read mode succeeds exactly when the file
\* exists, fails with the not-found error when it does not, and changes
\* nothing.
C9_ReadOpenExactlyWhenExists ==
  OpenedIn("VFS_READ") =>
    /\ last.st = Ok <=> IsFileAt(last.pre, last.uri)
    /\ ~IsFileAt(last.pre, last.uri) => IsNotFound(last.st)
    /\ fs = last.pre

\* C9 amended: open_file in read mode changes nothing in the backends and
\* calls no driver operation but the existence check. On a location whose
\* backend is Local or built in it succeeds exactly when the file exists and
\* fails with the not-found error when it does not; on any other location it
\* fails, with the not-compiled or the unsupported-scheme error, whether or
\* not the file exists.
C9_ReadOpen ==
  OpenedIn("VFS_READ") =>
    /\ fs = last.pre
    /\ DrvOps(last.drv) \subseteq {"is_file", "is_object"}
    /\ IF Available(last.uri)
       THEN /\ last.st = Ok <=> IsFileAt(last.pre, last.uri)
            /\ ~IsFileAt(last.pre, last.uri) => IsNotFound(last.st)
       ELSE IF NotCompiled(last.uri) THEN IsBackendNotCompiled(last.st)
       ELSE IsUnsupportedScheme(last.st)

\* open_file in read mode has failed with the not-found error on a local
\* location that holds no file, and the backends are as they were
C9_Witness ==
  /\ OpenedIn("VFS_READ")
  /\ is_file_uri(last.uri)
  /\ ~IsFileAt(last.pre, last.uri)
  /\ IsNotFound(last.st)
  /\ fs = last.pre

\* C10 as stated: create_dir on a location that is already a directory
\* succeeds and makes no driver create call.
C10_CreateDirOnDirSucceeds ==
  (last.op = "create_dir" /\ IsDirAt(last.pre, last.uri)) =>
    last.st = Ok /\ "create_dir" \notin DrvOps(last.drv)

\* C10 amended: on a location whose backend is Local or built in, create_dir
\* on what is already a directory succeeds, makes no driver create call and
\* changes nothing; and a create_dir that follows a successful create_dir on
\* the same location succeeds without a driver create call.
C10_CreateDirIdempotent ==
  [][last'.op = "create_dir" =>
       /\ (Available(last'.uri) /\ IsDirAt(fs, last'.uri)) =>
            /\ last'.st = Ok
            /\ "create_dir" \notin DrvOps(last'.drv)
            /\ fs' = fs
       /\ (last.op = "create_dir" /\ last.st = Ok /\ last.uri = last'.uri) =>
            /\ last'.st = Ok
            /\ "create_dir" \notin DrvOps(last'.drv)]_vars

\* create_dir has succeeded on a local directory without a driver create call
C10_Witness ==
  /\ last.op = "create_dir"
  /\ is_file_uri(last.uri)
  /\ IsDirAt(last.pre, last.uri)
  /\ last.st = Ok
  /\ DrvOps(last.drv) = {"is_dir"}


BucketOps ==
  {"create_bucket", "remove_bucket", "empty_bucket", "is_empty_bucket",
   "is_bucket"}

\* the errors the facade gives where the spec says UnsupportedOperation
IsUnsupportedOperation(st) == IsCrossFilesystem(st) \/ IsNoAppend(st)

\* the error's text says that the scheme of the location is not supported
SaysUnsupportedScheme(st) ==
  st.msg \in {"Unsupported URI scheme: ",
              "Cannot create bucket; Unsupported URI scheme: ",
              "Cannot remove bucket; Unsupported URI scheme: "}

\* the last call was a bucket operation on a location that is not on S3
BucketOpOffS3 == last.op \in BucketOps /\ ~is_s3_uri(last.uri)

\* C11 as stated: a bucket operation on a location of another scheme than S3
\* fails with UnsupportedOperation, names the location and calls no driver.
C11_BucketOpUnsupportedOperation ==
  BucketOpOffS3 =>
    /\ IsUnsupportedOperation(last.st)
    /\ last.st.uri = last.uri
    /\ last.drv = <<>>

\* C11 amended: a bucket operation on a location of another scheme than S3
\* fails with the unsupported-scheme error (is_bucket with the very error
\* every operation gives for an Other location), names the location in the
\* error, calls no driver and changes nothing.
C11_BucketOpUnsupportedScheme ==
  BucketOpOffS3 =>
    /\ last.st # Ok
    /\ SaysUnsupportedScheme(last.st)
    /\ ~IsUnsupportedOperation(last.st)
    /\ last.op = "is_bucket" => last.st = UnsupportedSchemeError(last.uri)
    /\ last.st.uri = last.uri
    /\ last.drv = <<>>
    /\ fs = last.pre

\* create_bucket on a local location has failed, naming the location
C11_Witness ==
  /\ last.op = "create_bucket"
  /\ is_file_uri(last.uri)
  /\ last.st = CreateBucketSchemeError(last.uri)
  /\ last.drv = <<>>


LockCall == last.op \in {"filelock_lock", "filelock_unlock"}

\* two callers hold an exclusive lock on u at the same time
BothHoldExclusive(u) ==
  \E g, h \in held :
    g.caller # h.caller /\ g.uri = u /\ h.uri = u /\ ~g.shared /\ ~h.shared

\* C12: filelock_lock and filelock_unlock on an HDFS or S3 location whose
\* backend is built in report success without a driver call; on a local
\* location the call is forwarded to the driver, and only there is an
\* exclusive lock held by one caller at a time.
C12_LockNoOpOffLocal ==
  /\ (LockCall /\ ~is_file_uri(last.uri) /\ Available(last.uri)) =>
       last.st = Ok /\ last.drv = <<>>
  /\ (LockCall /\ is_file_uri(last.uri)) =>
       last.drv = <<Call(last.uri, last.op)>>
  /\ \A u \in LocalLocs : ~BothHoldExclusive(u)

\* two callers hold an exclusive lock on the same S3 location, the second
\* of them just granted without a driver call
C12_Witness ==
  /\ BothHoldExclusive("s3://a")
  /\ last.op = "filelock_lock" /\ last.uri = "s3://a"
  /\ last.mode = "exclusive"
  /\ last.st = Ok /\ last.drv = <<>>


\* the last call was an operation the coordinator served
Accepted ==
  /\ last.op \notin {"none", "init"}
  /\ last.st = Ok \/ last.drv # <<>> \/ last.pool > 0

\* the last call was made after an init that created the pool and then
\* failed to connect a backend
AfterFailedConnect ==
  last.at = "InitFailed" /\ last.op # "init" /\ thread_pool_ # 0

\* C13: after an init that failed to connect a backend the coordinator is
\* not Ready and serves no operation.
C13_UnusableAfterFailedConnect == AfterFailedConnect => ~Accepted


\* the last call was made on a location of no storage scheme
OnOther ==
  \/ last.op \in UnaryOps \cup BucketOps \cup {"read"} /\ last.uri \in OtherLocs
  \/ last.op \in MoveOps /\ (last.uri \in OtherLocs \/ last.uri2 \in OtherLocs)

\* the error says the scheme is unsupported, in any of the facade's wordings
IsUnsupportedSchemeKind(st) ==
  st.code = "VFSError" /\ (IsUnsupportedScheme(st) \/ SaysUnsupportedScheme(st))

\* C14 as stated: every operation on a location of no storage scheme fails
\* with the unsupported-scheme error, which is not the not-compiled error.
C14_OtherAlwaysUnsupportedScheme ==
  OnOther =>
    IsUnsupportedSchemeKind(last.st) /\ ~IsBackendNotCompiled(last.st)

\* C14 amended: an operation on a location of no storage scheme always fails
\* and calls no driver for that location. Every operation on one location,
\* every bucket operation, a read on the single-task path, move_dir from
\* such a source and move_file to such a destination fail with the
\* unsupported-scheme error, which has the status code of every facade error
\* and differs from the not-compiled error in its text. A read on the
\* multi-task path returns the parallel-read error. move_dir from a storage
\* location to such a destination fails with the cross-filesystem error.
\* move_file from such a source first checks the destination and returns
\* that check's or the removal's error if there is one.
C14_OtherFails ==
  OnOther =>
    /\ last.st # Ok
    /\ last.st.code = "VFSError" \/ last.st = DriverError
    /\ \A k \in DOMAIN last.drv : last.drv[k][3] \notin OtherLocs
    /\ last.op \in UnaryOps \cup BucketOps =>
         /\ IsUnsupportedSchemeKind(last.st)
         /\ ~IsBackendNotCompiled(last.st)
         /\ last.drv = <<>> /\ last.pool = 0
    /\ last.op = "read" =>
         /\ last.drv = <<>>
         /\ IF last.pool = 0 THEN IsUnsupportedSchemeKind(last.st)
            ELSE last.st = ParallelReadError
    /\ (last.op = "move_file" /\ last.uri2 \in OtherLocs) =>
         IsUnsupportedSchemeKind(last.st) /\ last.drv = <<>>
    /\ (last.op = "move_file" /\ last.uri2 \notin OtherLocs) =>
         IF NotCompiled(last.uri2) THEN IsBackendNotCompiled(last.st)
         ELSE IF RemovalFailed THEN IsBackendError(last.st)
         ELSE IsUnsupportedSchemeKind(last.st)
    /\ (last.op = "move_dir" /\ last.uri \in OtherLocs) =>
         IsUnsupportedSchemeKind(last.st) /\ last.drv = <<>>
    /\ (last.op = "move_dir" /\ last.uri \notin OtherLocs) =>
         IsCrossFilesystem(last.st) /\ last.drv = <<>>

\* sync on a location of no storage scheme has failed with the
\* unsupported-scheme error
C14_Witness ==
  /\ last.op = "sync"
  /\ last.uri \in OtherLocs
  /\ last.st = UnsupportedSchemesError(last.uri)
  /\ last.drv = <<>>


IsAscending(sq) == \A i, j \in DOMAIN sq : i < j => sq[i] < sq[j]

SameEntries(sq, tq) ==
  /\ Len(sq) = Len(tq)
  /\ {sq[i] : i \in DOMAIN sq} = {tq[i] : i \in DOMAIN tq}

\* C15: a successful ls hands the caller exactly the paths the driver
\* listed, in ascending order, whatever the driver's order was; a failed ls,
\* the driver's failure or the dispatch's, hands the caller no path.
C15_LsSorted ==
  last.op = "ls" =>
    IF last.st = Ok
    THEN /\ Available(last.uri)
         /\ SameEntries(last.uris, last.listed)
         /\ IsAscending(last.uris)
    ELSE last.uris = <<>>

\* ls has succeeded on a listing the driver gave in descending order
C15_Witness ==
  /\ last.op = "ls"
  /\ last.st = Ok
  /\ last.listed = <<2, 1>>
  /\ last.uris = <<1, 2>>


Clamp(x, lo, hi) == IF x < lo THEN lo ELSE IF x > hi THEN hi ELSE x

\* a read is in progress or has just completed
Reading == rd.pc # "idle"

\* C16: a read's num_ops is floor(nbytes / min_parallel_size) clamped to
\* [1, pool size]; with num_ops = 1 the read is made by the caller and no
\* task is submitted; otherwise exactly num_ops tasks are submitted, never
\* more than the pool has threads.
C16_NumOpsAndTasks ==
  Reading =>
    /\ rd.num_ops =
         Clamp(rd.nbytes \div vfs_params_.min_parallel_size_, 1, thread_pool_)
    /\ Len(tasks) <= thread_pool_
    /\ rd.num_ops = 1 => tasks = <<>> /\ rd.pc \in {"single", "done"}
    /\ rd.num_ops > 1 =>
         /\ rd.pc \in {"enqueue", "wait", "done"}
         /\ Len(tasks) = rd.i
         /\ rd.pc \in {"wait", "done"} => Len(tasks) = rd.num_ops

\* a read whose quotient exceeds the pool size has completed with as many
\* tasks as the pool has threads
C16_Witness ==
  /\ rd.pc = "done"
  /\ rd.nbytes \div vfs_params_.min_parallel_size_ > thread_pool_
  /\ thread_pool_ > 1
  /\ Len(tasks) = thread_pool_


\* C17: on the multi-task path task i reads the range from offset + i*chunk
\* to offset + min((i+1)*chunk - 1, nbytes - 1), chunk = ceil(nbytes /
\* num_ops), into the buffer from position i*chunk.
C17_ChunkRanges ==
  AllEnqueued =>
    \A k \in DOMAIN tasks :
      LET i == k - 1
          chunk == ceil(rd.nbytes, rd.num_ops)
      IN  /\ tasks[k].offset = rd.offset + i * chunk
          /\ tasks[k].offset + tasks[k].nbytes - 1 =
               rd.offset + Min((i + 1) * chunk - 1, rd.nbytes - 1)
          /\ tasks[k].buffer = i * chunk


C20_NoEnqueueFailureMidFlight ==
  (\E k \in DOMAIN tasks : tasks[k].state = "invalid") =>
    \A j \in DOMAIN tasks : tasks[j].state = "invalid"


\* the last call was move_file between two locations of one scheme
SameSchemeMoveFile ==
  last.op = "move_file" /\ Scheme(last.uri) = Scheme(last.uri2)

IsExistenceCheck(c, u) == c[2] \in {"is_file", "is_object"} /\ c[3] = u
IsRemoval(c, u) == c[2] \in {"remove_file", "remove_object"} /\ c[3] = u
IsMove(c, u) == c[2] \in MoveDrvOps /\ c[3] = u

\* C19: move_file between two locations of one scheme checks the
\* destination first. If the check fails no driver is called. If a file is
\* there it is removed before the driver's move is called, and the move then
\* acts on a destination without that file; if the removal fails the move is
\* never called and nothing has changed. If no file is there the move is
\* called right after the check.
C19_MoveFileRemovesFirst ==
  SameSchemeMoveFile =>
    LET old == last.uri
        new == last.uri2
        drv == last.drv
    IN  IF ~Available(new)
        THEN last.st # Ok /\ drv = <<>> /\ fs = last.pre
        ELSE IF IsFileAt(last.pre, new)
        THEN /\ Len(drv) \in {2, 3}
             /\ IsExistenceCheck(drv[1], new)
             /\ IsRemoval(drv[2], new)
             /\ Len(drv) = 2 => last.st = DriverError /\ fs = last.pre
             /\ Len(drv) = 3 =>
                  /\ IsMove(drv[3], old)
                  /\ last.st = Ok =>
                       fs[new] = last.pre[old] /\ fs[old] = NoEnt
                  /\ last.st # Ok => fs[new] = NoEnt
        ELSE /\ Len(drv) = 2
             /\ IsExistenceCheck(drv[1], new)
             /\ IsMove(drv[2], old)

\* move_file has replaced the file at the destination by the source's file
C19_Witness ==
  /\ last.op = "move_file"
  /\ last.uri = "file:///a" /\ last.uri2 = "file:///b"
  /\ last.pre["file:///a"] = FileEnt(<<1>>)
  /\ last.pre["file:///b"] = FileEnt(<<>>)
  /\ last.st = Ok
  /\ Len(last.drv) = 3
  /\ fs["file:///b"] = FileEnt(<<1>>)


\* C21: supported_fs_ never changes after construction, and once Ready no
\* call replaces thread_pool_, connects a backend again or changes
\* vfs_params_.
C21_HandlesCreatedOnce ==
  [][/\ supported_fs_' = supported_fs_
     /\ lifecycle = "Ready" =>
          /\ thread_pool_' = thread_pool_
          /\ vfs_params_' = vfs_params_
          /\ connected' = connected
          /\ (last'.op = "init" /\ last'.at = "Ready") =>
               last'.drv = <<>> /\ last'.pool = 0]_vars

\* the part of C21 that holds: supported_fs_ is written by the constructor
\* only
C21_CapabilitiesFixed == [][supported_fs_' = supported_fs_]_vars


\* C22: a move_file between two different schemes that fails leaves the
\* source and the destination as they were; a file at the destination is
\* still there, with its content.
C22_FailedCrossSchemeMoveKeepsFiles ==
  (/\ last.op = "move_file"
   /\ Scheme(last.uri) # Scheme(last.uri2)
   /\ last.st # Ok) => fs = last.pre


\* the last call was a create_dir that returned success
CreatedDir ==
  last.op = "create_dir" /\ last.st = Ok /\ Available(last.uri)

\* C23 as stated: after a successful create_dir(u), is_dir(u) reports true
\* on Local, Distributed and ObjectStore.
C23_IsDirAfterCreateDirEveryScheme ==
  CreatedDir =>
    LET r == is_dir(fs, last.uri, FALSE) IN r.st = Ok /\ r.out

\* C23 amended: after a successful create_dir(u) on Local or Distributed,
\* is_dir(u) succeeds and reports true. On ObjectStore create_dir calls no
\* driver and changes nothing, so is_dir(u), when it succeeds, reports what
\* it would have reported before the create_dir.
C23_IsDirAfterCreateDir ==
  CreatedDir =>
    IF is_s3_uri(last.uri)
    THEN /\ last.drv = <<>>
         /\ fs = last.pre
         /\ \A fault \in BOOLEAN :
              LET r == is_dir(fs, last.uri, fault)
              IN  r.st = Ok => r.out = IsDirAt(last.pre, last.uri)
    ELSE LET r == is_dir(fs, last.uri, FALSE) IN r.st = Ok /\ r.out

\* create_dir has made a directory on HDFS where none was, and is_dir
\* reports it
C23_Witness ==
  /\ CreatedDir
  /\ last.uri = "hdfs://a"
  /\ ~IsDirAt(last.pre, last.uri)
  /\ "create_dir" \in DrvOps(last.drv)
  /\ is_dir(fs, last.uri, FALSE).out

====
